---- MODULE Spec2Model ----
(***************************************************************************)
(* Model of nifty_calculator.py, a Streamlit script that computes the      *)
(* 1/2/3 standard-deviation expected-move bands of the Nifty index from    *)
(* a spot price, an implied volatility and a number of days to expiry.     *)
(*                                                                         *)
(* The script's arithmetic is Python float arithmetic, i.e. IEEE-754       *)
(* binary64 with round-to-nearest, ties-to-even.  It is modelled bit for   *)
(* bit: a float is a sign, a 53-bit significand and a binary exponent, and *)
(* the significands are held as multi-limb naturals because they do not    *)
(* fit the model checker's machine integers.                               *)
(***************************************************************************)
EXTENDS Integers, Sequences, FiniteSets

(***************************************************************************)
(* Multi-limb naturals: little-endian sequences of limbs below BASE, with  *)
(* no most-significant zero limb; << >> is zero.                           *)
(***************************************************************************)
LimbBits == 15

BASE == 2 ^ LimbBits

RECURSIVE BNat(_)
BNat(n) == IF n = 0 THEN << >> ELSE << n % BASE >> \o BNat(n \div BASE)

RECURSIVE BNorm(_)
BNorm(a) ==
    IF a = << >> THEN << >>
    ELSE IF a[Len(a)] = 0 THEN BNorm(SubSeq(a, 1, Len(a) - 1))
    ELSE a

RECURSIVE BAddC(_, _, _)
BAddC(a, b, c) ==
    IF a = << >> /\ b = << >> THEN (IF c = 0 THEN << >> ELSE << c >>)
    ELSE LET x == IF a = << >> THEN 0 ELSE Head(a)
             y == IF b = << >> THEN 0 ELSE Head(b)
             s == x + y + c
             ta == IF a = << >> THEN << >> ELSE Tail(a)
             tb == IF b = << >> THEN << >> ELSE Tail(b)
         IN  << s % BASE >> \o BAddC(ta, tb, s \div BASE)

BAdd(a, b) == BAddC(a, b, 0)

\* a - b - c for a >= b + c, limb by limb with borrow c; not normalised.
RECURSIVE BSubC(_, _, _)
BSubC(a, b, c) ==
    IF a = << >> THEN << >>
    ELSE LET y == IF b = << >> THEN 0 ELSE Head(b)
             d == Head(a) - y - c
             tb == IF b = << >> THEN << >> ELSE Tail(b)
         IN  IF d < 0 THEN << d + BASE >> \o BSubC(Tail(a), tb, 1)
             ELSE << d >> \o BSubC(Tail(a), tb, 0)

BSub(a, b) == BNorm(BSubC(a, b, 0))

\* -1, 0, 1 as a < b, a = b, a > b (both normalised).
RECURSIVE BCmpAt(_, _, _)
BCmpAt(a, b, i) ==
    IF i = 0 THEN 0
    ELSE IF a[i] < b[i] THEN -1
    ELSE IF a[i] > b[i] THEN 1
    ELSE BCmpAt(a, b, i - 1)

BCmp(a, b) ==
    IF Len(a) < Len(b) THEN -1
    ELSE IF Len(a) > Len(b) THEN 1
    ELSE BCmpAt(a, b, Len(a))

\* a * k + c for 0 <= k, c < BASE.
RECURSIVE BMulSmallC(_, _, _)
BMulSmallC(a, k, c) ==
    IF a = << >> THEN (IF c = 0 THEN << >> ELSE << c >>)
    ELSE LET p == Head(a) * k + c
         IN  << p % BASE >> \o BMulSmallC(Tail(a), k, p \div BASE)

BMulSmall(a, k) == BNorm(BMulSmallC(a, k, 0))

RECURSIVE BMul(_, _)
BMul(a, b) ==
    IF a = << >> \/ b = << >> THEN << >>
    ELSE BAdd(BMulSmall(a, Head(b)),
              LET r == BMul(a, Tail(b)) IN IF r = << >> THEN << >> ELSE << 0 >> \o r)

\* << a div d, a mod d >> for 0 < d < BASE, most significant limb first.
RECURSIVE BDivSmallAt(_, _, _, _)
BDivSmallAt(a, d, i, r) ==
    IF i = 0 THEN << << >>, r >>
    ELSE LET cur  == r * BASE + a[i]
             rest == BDivSmallAt(a, d, i - 1, cur % d)
         IN  << rest[1] \o << cur \div d >>, rest[2] >>

\* The quotient limbs come out most significant last already reversed:
\* BDivSmallAt appends the current (higher) limb after the lower ones.
BDivSmall(a, d) ==
    LET qr == BDivSmallAt(a, d, Len(a), 0) IN << BNorm(qr[1]), qr[2] >>

RECURSIVE Zeros(_)
Zeros(n) == IF n = 0 THEN << >> ELSE << 0 >> \o Zeros(n - 1)

\* a * 2^n
BShl(a, n) ==
    IF a = << >> THEN << >>
    ELSE Zeros(n \div LimbBits) \o BMulSmall(a, 2 ^ (n % LimbBits))

\* floor(a / 2^n)
BShr(a, n) ==
    LET w == n \div LimbBits
    IN  IF w >= Len(a) THEN << >>
        ELSE BDivSmall(SubSeq(a, w + 1, Len(a)), 2 ^ (n % LimbBits))[1]

RECURSIVE IntBitLen(_)
IntBitLen(n) == IF n = 0 THEN 0 ELSE 1 + IntBitLen(n \div 2)

BBitLen(a) == IF a = << >> THEN 0
              ELSE LimbBits * (Len(a) - 1) + IntBitLen(a[Len(a)])

BOdd(a) == a # << >> /\ a[1] % 2 = 1

(***************************************************************************)
(* Python floats.  A float is [sign, man, exp] with value                  *)
(* (-1)^sign * man * 2^exp; man is zero or has exactly Precision bits.     *)
(* Every value of the script stays far inside the normal range (the        *)
(* widgets bound spot, iv and dte), so neither subnormals nor infinities   *)
(* arise.                                                                  *)
(***************************************************************************)
Precision == 53

FZero == [sign |-> 0, man |-> << >>, exp |-> 0]

\* q, or q + 1 when the bits cut off q (rem of them, against half a unit,
\* and whatever sticky stands for) round up: to nearest, ties to even.
RoundNearestEven(q, rem, half, sticky) ==
    IF BCmp(rem, half) = 1 \/ (BCmp(rem, half) = 0 /\ (sticky \/ BOdd(q)))
    THEN BAdd(q, << 1 >>)
    ELSE q

\* The float m * 2^e for a rounded significand m of Precision bits, or of
\* one more when the rounding carried.
FCarry(s, m, e) ==
    IF BBitLen(m) > Precision
    THEN [sign |-> s, man |-> BShr(m, 1), exp |-> e + 1]
    ELSE [sign |-> s, man |-> m, exp |-> e]

\* n has k bits too many, and q is n without them.
FRoundCut(s, n, e, sticky, k, q) ==
    FCarry(s, RoundNearestEven(q, BSub(n, BShl(q, k)), BShl(<< 1 >>, k - 1), sticky),
           e + k)

FRoundLen(s, n, e, sticky, len) ==
    IF len <= Precision
    THEN [sign |-> s, man |-> BShl(n, Precision - len), exp |-> e - (Precision - len)]
    ELSE FRoundCut(s, n, e, sticky, len - Precision, BShr(n, len - Precision))

\* The float nearest to (-1)^s * (n + t) * 2^e, where 0 <= t < 1 and sticky
\* says t > 0: round to nearest, ties to even.  With sticky, n must have
\* more than Precision bits.
FRound(s, n, e, sticky) ==
    IF n = << >> THEN FZero ELSE FRoundLen(s, n, e, sticky, BBitLen(n))

\* int -> float, exact for |n| < 2^53.
FromInt(n) == FRound(IF n < 0 THEN 1 ELSE 0, BNat(IF n < 0 THEN -n ELSE n), 0, FALSE)

FNeg(a) == IF a.man = << >> THEN a ELSE [a EXCEPT !.sign = 1 - a.sign]

\* a * b
FMul(a, b) ==
    FRound((a.sign + b.sign) % 2, BMul(a.man, b.man), a.exp + b.exp, FALSE)

\* << odd part of n, number of trailing zero bits of n >>, k counted so far.
RECURSIVE StripTwos(_, _)
StripTwos(n, k) ==
    IF n = << >> \/ BOdd(n) THEN << n, k >> ELSE StripTwos(BShr(n, 1), k + 1)

\* a / (odd * 2^e) from << quotient, remainder >> of a.man * 2^sh by odd.
FDivBy(s, qr, e) == FRound(s, qr[1], e, qr[2] # 0)

FDivOdd(a, d, od) ==
    FDivBy((a.sign + d.sign) % 2,
           BDivSmall(BShl(a.man, 2 * LimbBits), od[1][1]),
           a.exp - 2 * LimbBits - d.exp - od[2])

\* a / d for a divisor whose odd part is below BASE; the script divides
\* only by the literals 100, 365 and 2.
FDiv(a, d) == FDivOdd(a, d, StripTwos(d.man, 0))

\* << floor(sqrt(n)), n - floor(sqrt(n))^2 >>, digit by digit in base 4;
\* bit is a power of 4, at first the largest one not above n.
RECURSIVE ISqrtStep(_, _, _)
ISqrtStep(n, res, bit) ==
    IF bit = << >> THEN << res, n >>
    ELSE IF BCmp(n, BAdd(res, bit)) >= 0
    THEN ISqrtStep(BSub(n, BAdd(res, bit)), BAdd(BShr(res, 1), bit), BShr(bit, 2))
    ELSE ISqrtStep(n, BShr(res, 1), BShr(bit, 2))

ISqrt(n) ==
    IF n = << >> THEN << << >>, << >> >>
    ELSE ISqrtStep(n, << >>, BShl(<< 1 >>, 2 * ((BBitLen(n) - 1) \div 2)))

\* sqrt(man * 2^(2h)) from << root, remainder >> of man.
FSqrtOf(sr, h) == FRound(0, sr[1], h, sr[2] # << >>)

\* a.man is scaled by 2^k, k making the exponent even and the root long
\* enough to round.
FSqrtScaled(a, k) == FSqrtOf(ISqrt(BShl(a.man, k)), (a.exp - k) \div 2)

\* np.sqrt(a) for a >= 0: correctly rounded, as IEEE-754 requires.
FSqrt(a) == FSqrtScaled(a, Precision + 3 + ((a.exp + Precision + 3) % 2))

\* x + y or |x - y| as the signs say, x and y being the significands of a
\* and b at the common exponent e.
XAddAligned(a, b, e, x, y) ==
    IF a.sign = b.sign THEN [sign |-> a.sign, man |-> BAdd(x, y), exp |-> e]
    ELSE IF BCmp(x, y) = 0 THEN FZero
    ELSE IF BCmp(x, y) = 1 THEN [sign |-> a.sign, man |-> BSub(x, y), exp |-> e]
    ELSE [sign |-> b.sign, man |-> BSub(y, x), exp |-> e]

XAddAt(a, b, e) ==
    XAddAligned(a, b, e, BShl(a.man, a.exp - e), BShl(b.man, b.exp - e))

\* The real number a + b, exactly: [sign, man, exp] with a significand of
\* any length.
XAdd(a, b) ==
    IF a.man = << >> THEN b
    ELSE IF b.man = << >> THEN a
    ELSE XAddAt(a, b, IF a.exp < b.exp THEN a.exp ELSE b.exp)

XRound(x) == FRound(x.sign, x.man, x.exp, FALSE)

\* a + b: the exact sum, rounded once.
FAdd(a, b) == XRound(XAdd(a, b))

FSub(a, b) == FAdd(a, FNeg(b))

\* -1, 0, 1 as |a| < |b|, |a| = |b|, |a| > |b|.
FCmpMagAt(a, b, e) == BCmp(BShl(a.man, a.exp - e), BShl(b.man, b.exp - e))

FCmpMag(a, b) == FCmpMagAt(a, b, IF a.exp < b.exp THEN a.exp ELSE b.exp)

\* -1, 0, 1 as a < b, a = b, a > b.
FCmp(a, b) ==
    IF a.sign = 0 /\ b.sign = 0 THEN FCmpMag(a, b)
    ELSE IF a.sign = 1 /\ b.sign = 1 THEN FCmpMag(b, a)
    ELSE IF a.man = << >> /\ b.man = << >> THEN 0
    ELSE IF a.sign = 1 THEN -1 ELSE 1

FLe(a, b) == FCmp(a, b) <= 0

\* The integer a multi-limb natural stands for (below 2^31 in this model).
RECURSIVE BInt(_)
BInt(n) == IF n = << >> THEN 0 ELSE Head(n) + BASE * BInt(Tail(n))

\* The magnitude man * 2^exp rounded to an integer, ties to even.
NearestInt(man, exp) ==
    IF man = << >> THEN 0
    ELSE IF exp >= 0 THEN BInt(BShl(man, exp))
    ELSE BInt(RoundNearestEven(BShr(man, -exp),
                               BSub(man, BShl(BShr(man, -exp), -exp)),
                               BShl(<< 1 >>, -exp - 1), FALSE))

Signed(s, mag) == IF s = 1 /\ mag = 0 THEN "-0" ELSE IF s = 1 THEN -mag ELSE mag

\* format(a, ",.0f") as the integer it prints: the exact binary value
\* rounded to the nearest integer, ties to even.  The thousands separators
\* are notation and are left out; a negative value that rounds to zero
\* prints as "-0".
Fmt0(a) == Signed(a.sign, NearestInt(a.man, a.exp))

(***************************************************************************)
(* The widgets (lines 20-46).  The frontend hands the script the double    *)
(* nearest to the decimal the user entered; spot is entered in hundredths  *)
(* (format "%.2f") and iv in tenths (step 0.1), so that double is the      *)
(* correctly rounded quotient of two integers.                             *)
(***************************************************************************)
SpotMin == 10000

SpotDefault == 24000

SpotStep == 10

\* iv's min_value, max_value and default value, in tenths of a percent.
IvMin10 == 10

IvMax10 == 1000

IvDefault10 == 125

DteMin == 0

DteDefault == 7

\* Largest day count entered by hand, furthest expiry picked (days after
\* the picker's min_value), and number of midnights that pass.
MaxDte == 8

MaxAhead == 5

MaxDay == 1

\* Spot prices entered, in hundredths: the minimum, the default, one step
\* above the default, and a typed 24000.55.
SpotChoices100 ==
    { 100 * SpotMin, 100 * SpotDefault, 100 * (SpotDefault + SpotStep),
      100 * SpotDefault + 55 }

\* Implied volatilities entered, in tenths: the minimum, the default, one
\* step above it, their doubles, and the maximum.
IvChoices10 ==
    { IvMin10, IvDefault10, IvDefault10 + 1, 2 * IvDefault10,
      2 * (IvDefault10 + 1), IvMax10 }

SpotOf(c) == FDiv(FromInt(c), FromInt(100))

IvOf(t) == FDiv(FromInt(t), FromInt(10))

Spots == { SpotOf(c) : c \in SpotChoices100 }

Ivs == { IvOf(t) : t \in IvChoices10 }

\* The smaller input sets of the specification that keeps a history.
HistSpots == { SpotOf(100 * SpotDefault), SpotOf(100 * SpotDefault + 55) }

HistIvs == { IvOf(IvDefault10), IvOf(IvMax10) }

InputMethods == { "Select Date", "Enter Days Manually" }

(***************************************************************************)
(* The calculation (lines 49-63) and what it displays (lines 66-109).      *)
(***************************************************************************)
PercentBase == 100

DaysPerYear == 365

\* Variants of line 51 with a slip: iv inside the root, no root, 252 trading
\* days for the year, iv not taken as a percentage.
Sd1PointsIvInRoot(spot_price, iv, dte) ==
    FMul(spot_price,
         FSqrt(FMul(FDiv(iv, FromInt(PercentBase)),
                    FDiv(FromInt(dte), FromInt(DaysPerYear)))))

Sd1PointsNoRoot(spot_price, iv, dte) ==
    FMul(FMul(spot_price, FDiv(iv, FromInt(PercentBase))),
         FDiv(FromInt(dte), FromInt(DaysPerYear)))

Sd1PointsTradingDays(spot_price, iv, dte) ==
    FMul(FMul(spot_price, FDiv(iv, FromInt(PercentBase))),
         FSqrt(FDiv(FromInt(dte), FromInt(252))))

Sd1PointsNoPercent(spot_price, iv, dte) ==
    FMul(FMul(spot_price, iv), FSqrt(FDiv(FromInt(dte), FromInt(DaysPerYear))))

\* Line 51.
Sd1Points(spot_price, iv, dte) ==
    FMul(FMul(spot_price, FDiv(iv, FromInt(PercentBase))),
         FSqrt(FDiv(FromInt(dte), FromInt(DaysPerYear))))

\* Variants of lines 52-63 with a slip: the 2 SD and 3 SD lower limits
\* exchanged, and the 1 SD lower limit taken from the 2 SD move.
BandsOfLowersExchanged(spot_price, sd_1, sd_2, sd_3) ==
    [ sd_1_points |-> sd_1,
      upper_1sd   |-> FAdd(spot_price, sd_1),
      lower_1sd   |-> FSub(spot_price, sd_1),
      sd_2_points |-> sd_2,
      upper_2sd   |-> FAdd(spot_price, sd_2),
      lower_2sd   |-> FSub(spot_price, sd_3),
      sd_3_points |-> sd_3,
      upper_3sd   |-> FAdd(spot_price, sd_3),
      lower_3sd   |-> FSub(spot_price, sd_2) ]

BandsOfLowerFromTwo(spot_price, sd_1, sd_2, sd_3) ==
    [ sd_1_points |-> sd_1,
      upper_1sd   |-> FAdd(spot_price, sd_1),
      lower_1sd   |-> FSub(spot_price, sd_2),
      sd_2_points |-> sd_2,
      upper_2sd   |-> FAdd(spot_price, sd_2),
      lower_2sd   |-> FSub(spot_price, sd_2),
      sd_3_points |-> sd_3,
      upper_3sd   |-> FAdd(spot_price, sd_3),
      lower_3sd   |-> FSub(spot_price, sd_3) ]

\* Lines 52-63, from the three moves.
BandsOf(spot_price, sd_1, sd_2, sd_3) ==
    [ sd_1_points |-> sd_1,
      upper_1sd   |-> FAdd(spot_price, sd_1),
      lower_1sd   |-> FSub(spot_price, sd_1),
      sd_2_points |-> sd_2,
      upper_2sd   |-> FAdd(spot_price, sd_2),
      lower_2sd   |-> FSub(spot_price, sd_2),
      sd_3_points |-> sd_3,
      upper_3sd   |-> FAdd(spot_price, sd_3),
      lower_3sd   |-> FSub(spot_price, sd_3) ]

\* A variant of line 61 with a slip: the 3 SD move as four times the first.
BandsFromFourfold(spot_price, sd_1) ==
    BandsOf(spot_price, sd_1, FMul(sd_1, FromInt(2)), FMul(sd_1, FromInt(4)))

\* Lines 56 and 61.
BandsFrom(spot_price, sd_1) ==
    BandsOf(spot_price, sd_1, FMul(sd_1, FromInt(2)), FMul(sd_1, FromInt(3)))

\* Lines 51-63: the names the branch assigns.
Bands(spot_price, iv, dte) ==
    BandsFrom(spot_price, Sd1Points(spot_price, iv, dte))

\* One row of three metrics (lines 72-74, 82-84, 92-94).
MetricRow(n, lower, sd, upper) ==
    << [kind |-> "metric", row |-> n, label |-> "Bearish Limit",
        value |-> Fmt0(lower), delta |-> << "-", Fmt0(sd) >>],
       [kind |-> "metric", row |-> n, label |-> "Expected Move",
        value |-> Fmt0(sd), delta |-> << >>],
       [kind |-> "metric", row |-> n, label |-> "Bullish Limit",
        value |-> Fmt0(upper), delta |-> << "+", Fmt0(sd) >>] >>

TextLine(l, v) ==
    [kind |-> "text", row |-> 0, label |-> l, value |-> Fmt0(v), delta |-> << >>]

\* Lines 66-106: the elements that show a value, in display order.
Results(dte, spot_price, b) ==
    << [kind |-> "header", row |-> 0, label |-> "Days to Expiry",
        value |-> dte, delta |-> << >>] >>
    \o MetricRow(1, b.lower_1sd, b.sd_1_points, b.upper_1sd)
    \o MetricRow(2, b.lower_2sd, b.sd_2_points, b.upper_2sd)
    \o MetricRow(3, b.lower_3sd, b.sd_3_points, b.upper_3sd)
    \o << TextLine("UPPER 3SD", b.upper_3sd),
          TextLine("UPPER 2SD", b.upper_2sd),
          TextLine("UPPER 1SD", b.upper_1sd),
          TextLine("SPOT", spot_price),
          TextLine("LOWER 1SD", b.lower_1sd),
          TextLine("LOWER 2SD", b.lower_2sd),
          TextLine("LOWER 3SD", b.lower_3sd) >>

\* Line 109.
Warning ==
    << [kind |-> "warning", row |-> 0,
        label |-> "Days to Expiry must be greater than 0.",
        value |-> 0, delta |-> << >>] >>

\* A variant of line 49 with a slip: zero days let through.
ValidFromZero(dte) == dte >= 0

\* Line 49.
Valid(dte) == dte > 0

(***************************************************************************)
(* The state.  Streamlit runs the script from top to bottom, and again on  *)
(* every interaction, each time in a fresh namespace.                      *)
(*   day      the calendar day date.today() returns                        *)
(*   pc       where the run stands                                         *)
(*   ns       the script's namespace: the names assigned so far            *)
(*   screen   the value-bearing elements the run has displayed             *)
(*   snapshot an earlier run, kept for comparison (history only)           *)
(***************************************************************************)
VARIABLES day, pc, ns, screen, snapshot

vars == << day, pc, ns, screen, snapshot >>

NoNames == [k \in {} |-> 0]

\* ns with the names of r (re)assigned.
Assign(old, r) ==
    [k \in DOMAIN old \cup DOMAIN r |-> IF k \in DOMAIN r THEN r[k] ELSE old[k]]

Init ==
    /\ day = 0
    /\ pc = "inputs"
    /\ ns = NoNames
    /\ screen = << >>
    /\ snapshot = << >>

\* Lines 20-39: the three sidebar inputs.
ReadMarketData(spots, ivs) ==
    /\ pc = "inputs"
    /\ \E s \in spots, v \in ivs, m \in InputMethods :
          ns' = Assign(ns, [spot_price |-> s, iv |-> v, input_method |-> m])
    /\ pc' = "expiry"
    /\ UNCHANGED << day, screen, snapshot >>

\* Line 42: the picker offers the dates from date.today() on.
SelectDate ==
    /\ pc = "expiry"
    /\ ns.input_method = "Select Date"
    /\ \E d \in day .. day + MaxAhead :
          ns' = Assign(ns, [expiry_date |-> d])
    /\ pc' = "today"
    /\ UNCHANGED << day, screen, snapshot >>

\* Lines 43-44: date.today() is read a second time.
ReadToday ==
    /\ pc = "today"
    /\ ns' = Assign(ns, [today |-> day, dte |-> ns.expiry_date - day])
    /\ pc' = "calc"
    /\ UNCHANGED << day, screen, snapshot >>

\* Line 46.
EnterDays ==
    /\ pc = "expiry"
    /\ ns.input_method = "Enter Days Manually"
    /\ \E d \in DteMin .. MaxDte : ns' = Assign(ns, [dte |-> d])
    /\ pc' = "calc"
    /\ UNCHANGED << day, screen, snapshot >>

\* Lines 51-106: the bands are assigned and displayed.
Show(b) ==
    /\ ns' = Assign(ns, b)
    /\ screen' = screen \o Results(ns.dte, ns.spot_price, b)

\* Lines 49-109.
Calculate ==
    /\ pc = "calc"
    /\ IF Valid(ns.dte)
       THEN Show(Bands(ns.spot_price, ns.iv, ns.dte))
       ELSE /\ ns' = ns
            /\ screen' = screen \o Warning
    /\ pc' = "done"
    /\ UNCHANGED << day, snapshot >>

\* What a new run starts from: nothing of the last one.
FreshNames(old) == NoNames

\* A variant in which the page of the last run stays.
StaleScreen(old) == old

FreshScreen(old) == << >>

\* An interaction: the script runs again.
Rerun ==
    /\ pc = "done"
    /\ pc' = "inputs"
    /\ ns' = FreshNames(ns)
    /\ screen' = FreshScreen(screen)
    /\ UNCHANGED << day, snapshot >>

\* The names lines 41-46 assign besides dte: how dte was entered.
ExpiryNames == { "input_method", "expiry_date", "today" }

\* A finished run as an invocation of the calculation: its three inputs,
\* the names it assigned and what it displayed.
Invocation(names, shown) ==
    [ names |-> [k \in DOMAIN names \ ExpiryNames |-> names[k]], shown |-> shown ]

\* As Rerun, and the finished run is kept for comparison.
RerunKeeping ==
    /\ pc = "done"
    /\ pc' = "inputs"
    /\ ns' = FreshNames(ns)
    /\ screen' = FreshScreen(screen)
    /\ snapshot' = << Invocation(ns, screen) >>
    /\ UNCHANGED day

\* The calendar day changes, at any point of a run.
Midnight ==
    /\ day < MaxDay
    /\ day' = day + 1
    /\ UNCHANGED << pc, ns, screen, snapshot >>

Next ==
    \/ ReadMarketData(Spots, Ivs)
    \/ SelectDate
    \/ ReadToday
    \/ EnterDays
    \/ Calculate
    \/ Rerun
    \/ Midnight

Spec == Init /\ [][Next]_vars

NextHist ==
    \/ ReadMarketData(HistSpots, HistIvs)
    \/ SelectDate
    \/ ReadToday
    \/ EnterDays
    \/ Calculate
    \/ Rerun
    \/ RerunKeeping
    \/ Midnight

SpecHist == Init /\ [][NextHist]_vars

(***************************************************************************)
(* Exact arithmetic on the values of floats, for stating how far a         *)
(* computed value is from the real number it stands for.                   *)
(***************************************************************************)
\* k units in the last place of the float a.
Ulps(k, a) == [sign |-> 0, man |-> BNat(k), exp |-> a.exp]

\* |a - b| <= k ulp of ref, exactly.
Within(a, b, k, ref) == FCmpMag(XAdd(a, FNeg(b)), Ulps(k, ref)) <= 0

\* 2 * |a - b| <= 1 ulp of a: a is b correctly rounded.
RoundingOf(a, b) == FCmpMag(XAdd(XAdd(a, FNeg(b)), XAdd(a, FNeg(b))), Ulps(1, a)) <= 0

\* a = b as real numbers.
XEqual(a, b) == XAdd(a, FNeg(b)).man = << >>

\* |a - b| <= 1/2.
HalfApart(a, b) ==
    FCmpMag(XAdd(XAdd(a, FNeg(b)), XAdd(a, FNeg(b))), FromInt(1)) <= 0

XSquare(a) == [sign |-> 0, man |-> BMul(a.man, a.man), exp |-> 2 * a.exp]

XTimes(a, n) == [a EXCEPT !.man = BMul(a.man, n)]

XProduct(a, b) ==
    [sign |-> (a.sign + b.sign) % 2, man |-> BMul(a.man, b.man), exp |-> a.exp + b.exp]

\* 2^50, 2^50 - 1 and 2^50 + 1: a relative error of 2^-50.
TolUnit == BShl(<< 1 >>, 50)

TolBelow == BSub(TolUnit, << 1 >>)

TolAbove == BAdd(TolUnit, << 1 >>)

\* sd is spot * (iv / 100) * sqrt(dte / 365), the real number, to within a
\* relative error of 2^-50: with i = (spot * iv)^2 * dte and
\* c = sd^2 * 100^2 * 365,  (1 - 2^-50)^2 * i <= c <= (1 + 2^-50)^2 * i.
NearReference(sd, spot, v, d) ==
    LET i == XTimes(XSquare(XProduct(spot, v)), BNat(d))
        c == XTimes(XTimes(XSquare(sd), BNat(PercentBase * PercentBase * DaysPerYear)),
                    BMul(TolUnit, TolUnit))
    IN  /\ FCmpMag(XTimes(i, BMul(TolBelow, TolBelow)), c) <= 0
        /\ FCmpMag(c, XTimes(i, BMul(TolAbove, TolAbove))) <= 0

FTwice(a) == FMul(FromInt(2), a)

Uppers == << "upper_1sd", "upper_2sd", "upper_3sd" >>

Lowers == << "lower_1sd", "lower_2sd", "lower_3sd" >>

Moves == << "sd_1_points", "sd_2_points", "sd_3_points" >>

BandNames == { Uppers[m] : m \in 1..3 } \cup { Lowers[m] : m \in 1..3 }
             \cup { Moves[m] : m \in 1..3 }

\* The run is over and took the branch of line 49.
Computed == pc = "done" /\ ns.dte > 0

\* The value displayed under a text label, and in a metric of a row.
Text(l) ==
    screen[CHOOSE i \in DOMAIN screen :
              screen[i].kind = "text" /\ screen[i].label = l].value

Metric(n, l) ==
    screen[CHOOSE i \in DOMAIN screen :
              screen[i].kind = "metric" /\ screen[i].row = n /\ screen[i].label = l].value

DefaultInputs ==
    /\ ns.spot_price = SpotOf(100 * SpotDefault)
    /\ ns.iv = IvOf(IvDefault10)
    /\ ns.dte = DteDefault

(***************************************************************************)
(* C1.  The run fails (shows the warning and assigns and displays no band  *)
(* value) exactly when dte <= 0; when dte > 0 it assigns the point move    *)
(* and the three (lower, upper) pairs, displays them all and shows no      *)
(* warning.                                                                *)
(***************************************************************************)
C1_WarnsExactlyWhenNotPositive ==
    pc = "done" =>
       /\ ns.dte <= 0 =>
             /\ screen = Warning
             /\ DOMAIN ns \cap BandNames = {}
       /\ ns.dte > 0 =>
             /\ BandNames \subseteq DOMAIN ns
             /\ \A i \in DOMAIN screen : screen[i].kind # "warning"
             /\ { << screen[i].kind, screen[i].row, screen[i].label >> :
                     i \in DOMAIN screen }
                = { << "header", 0, "Days to Expiry" >> }
                  \cup { << "metric", n, l >> :
                            n \in 1..3,
                            l \in { "Bearish Limit", "Expected Move", "Bullish Limit" } }
                  \cup { << "text", 0, l >> :
                            l \in { "UPPER 3SD", "UPPER 2SD", "UPPER 1SD", "SPOT",
                                    "LOWER 1SD", "LOWER 2SD", "LOWER 3SD" } }

\* A run that ended with dte = 0 and the warning.
C1_Witness == pc = "done" /\ ns.dte = 0 /\ screen = Warning

(***************************************************************************)
(* C2.  After a calculation the bands are ordered                          *)
(* lower_3 <= lower_2 <= lower_1 <= spot <= upper_1 <= upper_2 <= upper_3, *)
(* and the point move is not negative.                                     *)
(***************************************************************************)
C2_BandsOrdered ==
    Computed =>
       /\ FLe(FZero, ns.sd_1_points)
       /\ FLe(ns.lower_3sd, ns.lower_2sd)
       /\ FLe(ns.lower_2sd, ns.lower_1sd)
       /\ FLe(ns.lower_1sd, ns.spot_price)
       /\ FLe(ns.spot_price, ns.upper_1sd)
       /\ FLe(ns.upper_1sd, ns.upper_2sd)
       /\ FLe(ns.upper_2sd, ns.upper_3sd)

\* A calculation whose bands are strictly nested.
C2_Witness ==
    /\ Computed
    /\ ~FLe(ns.upper_3sd, ns.upper_2sd)
    /\ ~FLe(ns.upper_1sd, ns.spot_price)
    /\ ~FLe(ns.lower_2sd, ns.lower_3sd)

(***************************************************************************)
(* C3.  As claimed: the upper bands are spaced by exactly one point move,  *)
(* upper_3 - upper_2 = upper_2 - upper_1 = upper_1 - spot = point_move.    *)
(***************************************************************************)
C3_SpacingExact ==
    Computed =>
       /\ FSub(ns.upper_3sd, ns.upper_2sd) = ns.sd_1_points
       /\ FSub(ns.upper_2sd, ns.upper_1sd) = ns.sd_1_points
       /\ FSub(ns.upper_1sd, ns.spot_price) = ns.sd_1_points

(***************************************************************************)
(* C3, amended.  The upper bands are spaced by one point move up to the    *)
(* rounding of the float additions: each of upper_3 - upper_2,             *)
(* upper_2 - upper_1 and upper_1 - spot, taken exactly or as a float       *)
(* subtraction, is within 2 units in the last place of upper_3 of          *)
(* point_move.                                                             *)
(***************************************************************************)
C3_SpacingWithinRounding ==
    Computed =>
       \A p \in { << ns.upper_3sd, ns.upper_2sd >>, << ns.upper_2sd, ns.upper_1sd >>,
                  << ns.upper_1sd, ns.spot_price >> } :
          /\ Within(XAdd(p[1], FNeg(p[2])), ns.sd_1_points, 2, ns.upper_3sd)
          /\ Within(FSub(p[1], p[2]), ns.sd_1_points, 2, ns.upper_3sd)

\* A calculation in which a spacing is not the point move.
C3_Witness ==
    /\ Computed
    /\ FSub(ns.upper_3sd, ns.upper_2sd) # ns.sd_1_points

(***************************************************************************)
(* C4.  As claimed: every band is exactly symmetric around spot,           *)
(* (upper_m + lower_m) / 2 = spot for m = 1, 2, 3.                         *)
(***************************************************************************)
C4_SymmetryExact ==
    Computed =>
       \A m \in 1..3 :
          FDiv(FAdd(ns[Uppers[m]], ns[Lowers[m]]), FromInt(2)) = ns.spot_price

(***************************************************************************)
(* C4, amended.  Every band is symmetric around spot up to the rounding of *)
(* the float additions: (upper_m + lower_m) / 2 is within 1 unit in the    *)
(* last place of upper_m of spot, and upper_m - spot within 2 of           *)
(* spot - lower_m.                                                         *)
(***************************************************************************)
C4_SymmetryWithinRounding ==
    Computed =>
       \A m \in 1..3 :
          /\ Within(FDiv(FAdd(ns[Uppers[m]], ns[Lowers[m]]), FromInt(2)),
                    ns.spot_price, 1, ns[Uppers[m]])
          /\ Within(FSub(ns[Uppers[m]], ns.spot_price),
                    FSub(ns.spot_price, ns[Lowers[m]]), 2, ns[Uppers[m]])
          /\ Within(XAdd(ns[Uppers[m]], FNeg(ns.spot_price)),
                    XAdd(ns.spot_price, FNeg(ns[Lowers[m]])), 2, ns[Uppers[m]])

\* A calculation whose 3 SD band has a midpoint other than spot.
C4_Witness ==
    /\ Computed
    /\ FDiv(FAdd(ns.upper_3sd, ns.lower_3sd), FromInt(2)) # ns.spot_price

\* sd, the point move for an iv v not below the run's, is not below the
\* run's point move, and is twice it when v is twice the run's iv.
LinearAt(v, sd) ==
    /\ FLe(ns.sd_1_points, sd)
    /\ v = FTwice(ns.iv) => sd = FTwice(ns.sd_1_points)

(***************************************************************************)
(* C5.  The point move is linear in iv: with spot and dte as they are, the *)
(* calculation for twice the iv gives exactly twice the point move, and    *)
(* the calculation for any iv not below this one a point move not below    *)
(* this one.                                                               *)
(***************************************************************************)
C5_LinearInIv ==
    Computed =>
       \A v \in Ivs :
          FLe(ns.iv, v) => LinearAt(v, Sd1Points(ns.spot_price, v, ns.dte))

\* A calculation for 12.6 %, which no float equals, with 25.2 % on offer.
C5_Witness ==
    /\ Computed
    /\ ns.iv = IvOf(IvDefault10 + 1)
    /\ FTwice(ns.iv) \in Ivs

(***************************************************************************)
(* C6.  The point move grows with the square root of the time: with spot   *)
(* and iv as they are, the calculation for four times the dte gives        *)
(* exactly twice the point move, the calculation for a later dte a point   *)
(* move not below this one, and the calculation for 365 days the full      *)
(* spot * (iv / 100).                                                      *)
(***************************************************************************)
C6_SquareRootOfTime ==
    Computed =>
       /\ Sd1Points(ns.spot_price, ns.iv, 4 * ns.dte) = FTwice(ns.sd_1_points)
       /\ \A d \in ns.dte + 1 .. ns.dte + 2 :
             FLe(ns.sd_1_points, Sd1Points(ns.spot_price, ns.iv, d))
       /\ Sd1Points(ns.spot_price, ns.iv, DaysPerYear)
             = FMul(ns.spot_price, FDiv(ns.iv, FromInt(PercentBase)))

\* A calculation for 3 days, whose dte / 365 no float equals.
C6_Witness ==
    /\ Computed
    /\ ns.dte = 3
    /\ ns.iv = IvOf(IvDefault10 + 1)

(***************************************************************************)
(* C7.  As claimed: for spot 24000, iv 12.5 and dte 7 the point move is    *)
(* about 1043.07, upper_1 about 25043 and lower_1 about 22957.             *)
(***************************************************************************)
C7_ExampleAsClaimed ==
    (Computed /\ DefaultInputs) =>
       /\ Fmt0(FMul(ns.sd_1_points, FromInt(100))) = 104307
       /\ Fmt0(ns.upper_1sd) = 25043
       /\ Fmt0(ns.lower_1sd) = 22957

(***************************************************************************)
(* C7, amended.  For spot 24000, iv 12.5 and dte 7 the point move is       *)
(* 24000 * 0.125 * sqrt(7/365), about 415.45 (displayed as 415), upper_1   *)
(* about 24415 and lower_1 about 23585.                                    *)
(***************************************************************************)
C7_Example ==
    (Computed /\ DefaultInputs) =>
       /\ Fmt0(FMul(ns.sd_1_points, FromInt(100))) = 41545
       /\ NearReference(ns.sd_1_points, FromInt(24000), FDiv(FromInt(25), FromInt(2)), 7)
       /\ Fmt0(ns.upper_1sd) = 24415
       /\ Fmt0(ns.lower_1sd) = 23585
       /\ Metric(1, "Expected Move") = 415
       /\ Metric(1, "Bullish Limit") = 24415
       /\ Metric(1, "Bearish Limit") = 23585

\* The calculation for the default inputs.
C7_Witness == Computed /\ DefaultInputs /\ Text("UPPER 1SD") = 24415

SameInputs(a, b) ==
    /\ a.names.spot_price = b.names.spot_price
    /\ a.names.iv = b.names.iv
    /\ a.names.dte = b.names.dte

(***************************************************************************)
(* C9.  The calculation is deterministic and keeps nothing between runs:   *)
(* a finished run assigned and displayed exactly what an earlier run with  *)
(* the same spot, iv and dte did, whatever ran in between.                 *)
(***************************************************************************)
C9_SameInputsSameOutcome ==
    (pc = "done" /\ snapshot # << >>) =>
       (SameInputs(Invocation(ns, screen), snapshot[1]) =>
           Invocation(ns, screen) = snapshot[1])

\* A finished calculation with the inputs of the run that was kept.
C9_Witness ==
    /\ Computed
    /\ snapshot # << >>
    /\ SameInputs(Invocation(ns, screen), snapshot[1])

(***************************************************************************)
(* C10.  As claimed: the day count handed to the calculation is never      *)
(* negative, with either input method and however a change of the          *)
(* calendar day falls between the two reads of date.today().               *)
(***************************************************************************)
C10_DteNeverNegative == pc \in { "calc", "done" } => ns.dte >= 0

====
